---- MODULE Spec2Model ----
(***************************************************************************)
(* A model of the AXON agent of src/axon.py: the in-memory knowledge base, *)
(* the three persisted files (facts, preferences, log), the direct store   *)
(* operations and the respond dispatcher with its text parsing helpers.    *)
(*                                                                         *)
(* Text is a sequence of one-character strings, so that Python's substring *)
(* tests, str.lower, str.strip and the regular expressions of the parsing  *)
(* helpers are computed character by character.  The alphabet holds no     *)
(* line break, so the regex "." matches every character of a text.         *)
(***************************************************************************)
EXTENDS Integers, Sequences, FiniteSets, TLC

VARIABLES
    memFacts,   \* self.memory["facts"]["items"]: the in-memory fact list
    memPrefs,   \* self.memory["preferences"]: (category, item) -> entry
    diskFacts,  \* memory/facts.json: [ok |-> readable JSON, items |-> list]
    diskPrefs,  \* memory/preferences.json: [ok |-> readable JSON, map |-> mapping]
    log,        \* memory/logs.jsonl: the sequence of lines appended so far
    clock,      \* the value _now() returns during the next operation
    nextId,     \* the next identifier uuid4() hands out (never reused)
    last,       \* what the last operation was given and what it returned
    calls       \* per agent of a shared directory: its memory and how far
                \* its call of respond has come

vars == <<memFacts, memPrefs, diskFacts, diskPrefs, log, clock, nextId, last, calls>>

----------------------------------------------------------------------------
(* Text helpers: Python str and re, character by character.                *)

Whitespace == {" ", "\t"}

UpperToLower ==
    [A |-> "a", B |-> "b", C |-> "c", D |-> "d", E |-> "e", F |-> "f",
     G |-> "g", H |-> "h", I |-> "i", J |-> "j", K |-> "k", L |-> "l",
     M |-> "m", N |-> "n", O |-> "o", P |-> "p", Q |-> "q", R |-> "r",
     S |-> "s", T |-> "t", U |-> "u", V |-> "v", W |-> "w", X |-> "x",
     Y |-> "y", Z |-> "z"]

LowerChar(c) == IF c \in DOMAIN UpperToLower THEN UpperToLower[c] ELSE c

\* str.lower()
Lower(s) == [i \in 1..Len(s) |-> LowerChar(s[i])]

SetMin(S) == CHOOSE x \in S : \A y \in S : x <= y

SetMax(S) == CHOOSE x \in S : \A y \in S : y <= x

\* needle occupies s[i .. i+Len(needle)-1]
OccursAt(s, needle, i) ==
    /\ i >= 1
    /\ i + Len(needle) - 1 <= Len(s)
    /\ SubSeq(s, i, i + Len(needle) - 1) = needle

\* Python's "needle in s"
Contains(s, needle) ==
    \E i \in 1..(Len(s) - Len(needle) + 1) : OccursAt(s, needle, i)

\* s[i:] counted from 1
Tail_From(s, i) == SubSeq(s, i, Len(s))

\* str.strip(chars)
StripChars(s, chars) ==
    LET keep == {i \in 1..Len(s) : s[i] \notin chars}
    IN  IF keep = {} THEN <<>> ELSE SubSeq(s, SetMin(keep), SetMax(keep))

\* str.strip()
Strip(s) == StripChars(s, Whitespace)

\* The first index >= i of s that holds no whitespace, Len(s)+1 when none.
SkipSpace(s, i) ==
    LET rest == {j \in i..Len(s) : s[j] \notin Whitespace}
    IN  IF rest = {} THEN Len(s) + 1 ELSE SetMin(rest)

\* What Python returns for "no match": None.
None == <<"<None>">>

\* re.search(kw + r"\s+(.+)", s, IGNORECASE).group(1), or None.  The leftmost
\* occurrence of kw that is followed by whitespace and then by at least one
\* more character; \s+ is greedy and gives one character back to (.+) only
\* when the whitespace runs to the end of the text.
KeywordRest(s, kw) ==
    LET low == Lower(s)
        n == Len(s)
        Ok(i) == /\ OccursAt(low, kw, i)
                 /\ i + Len(kw) <= n
                 /\ s[i + Len(kw)] \in Whitespace
                 /\ \/ SkipSpace(s, i + Len(kw)) <= n
                    \/ i + Len(kw) < n
        at == {i \in 1..n : Ok(i)}
    IN  IF at = {} THEN None
        ELSE LET i == SetMin(at)
                 r == SkipSpace(s, i + Len(kw))
             IN  IF r <= n THEN Tail_From(s, r) ELSE <<s[n]>>

----------------------------------------------------------------------------
(* The trigger words and phrases of respond and of the parsing helpers.    *)

KwCherche == <<"c", "h", "e", "r", "c", "h", "e">>

KwGoogle == <<"g", "o", "o", "g", "l", "e">>

KwWeb == <<"w", "e", "b">>

KwApprendsQue == <<"a", "p", "p", "r", "e", "n", "d", "s", " ", "q", "u", "e">>

KwTiensSacheQue == <<"t", "i", "e", "n", "s", " ", "s", "a", "c", "h", "e", " ", "q", "u", "e">>

KwMonAvis == <<"m", "o", "n", " ", "a", "v", "i", "s">>

KwJaime == <<"j", "'", "a", "i", "m", "e">>

KwJeNaimePas == <<"j", "e", " ", "n", "'", "a", "i", "m", "e", " ", "p", "a", "s">>

KwOublie == <<"o", "u", "b", "l", "i", "e">>

KwQuiEst == <<"q", "u", "i", " ", "e", "s", "t">>

KwQuEstCeQue == <<"q", "u", "'", "e", "s", "t", "-", "c", "e", " ", "q", "u", "e">>

KwQuelEst == <<"q", "u", "e", "l", " ", "e", "s", "t">>

KwEst == <<"e", "s", "t">>

SearchKeywords == {KwCherche, KwGoogle, KwWeb}

TeachKeywords == {KwApprendsQue, KwTiensSacheQue}

PreferenceKeywords == {KwMonAvis, KwJaime, KwJeNaimePas}

\* any(keyword in lowered for keyword in kws)
ContainsAny(lowered, kws) == \E kw \in kws : Contains(lowered, kw)

----------------------------------------------------------------------------
(* Parsing helpers.                                                        *)

\* _extract_after_keyword: the text after the first occurrence of keyword,
\* found ignoring case; "" when it does not occur.
extract_after_keyword(prompt, keyword) ==
    LET low == Lower(prompt)
        at == {i \in 1..Len(prompt) : OccursAt(low, Lower(keyword), i)}
    IN  IF at = {} THEN <<>>
        ELSE Tail_From(prompt, SetMin(at) + Len(keyword))

\* _extract_query: re.search(r"(?:cherche|google|web)\s+(.*)"): the text after
\* the leftmost trigger word that is followed by whitespace, stripped; the
\* whole prompt, stripped, when no trigger word is followed by whitespace.
extract_query(prompt) ==
    LET low == Lower(prompt)
        n == Len(prompt)
        End(i) == {i + Len(kw) : kw \in {k \in SearchKeywords : OccursAt(low, k, i)}}
        Ok(i) == \E e \in End(i) : e <= n /\ prompt[e] \in Whitespace
        at == {i \in 1..n : Ok(i)}
    IN  IF at = {} THEN Strip(prompt)
        ELSE LET i == SetMin(at)
                 e == CHOOSE x \in End(i) : x <= n /\ prompt[x] \in Whitespace
             IN  Strip(Tail_From(prompt, e))

\* prefix_pattern.sub("", prompt): a trigger phrase at the very start of the
\* prompt, with the whitespace after it (at least one), is removed.
StripTeachPrefix(prompt) ==
    LET low == Lower(prompt)
        hit == {kw \in TeachKeywords :
                   /\ OccursAt(low, kw, 1)
                   /\ Len(kw) < Len(prompt)
                   /\ prompt[Len(kw) + 1] \in Whitespace}
    IN  IF hit = {} THEN prompt
        ELSE LET kw == CHOOSE k \in hit : TRUE
             IN  Tail_From(prompt, SkipSpace(prompt, Len(kw) + 1))

\* re.search(r"(.+?)\s+est\s+(.+)", cleaned, IGNORECASE) as <<group 1, group 2>>,
\* or None.  A match starts at the first character; group 1 is lazy, so it
\* ends before the first whitespace run that is followed by "est", whitespace
\* and one more character.
EstSplit(cleaned) ==
    LET low == Lower(cleaned)
        n == Len(cleaned)
        Est(e) == SkipSpace(cleaned, e)
        Ok(e) == /\ cleaned[e] \in Whitespace
                 /\ OccursAt(low, KwEst, Est(e))
                 /\ Est(e) + 3 <= n
                 /\ cleaned[Est(e) + 3] \in Whitespace
                 /\ \/ SkipSpace(cleaned, Est(e) + 3) <= n
                    \/ Est(e) + 3 < n
        ends == {e \in 2..n : Ok(e)}
    IN  IF ends = {} THEN None
        ELSE LET e == SetMin(ends)
                 r == SkipSpace(cleaned, Est(e) + 3)
             IN  <<SubSeq(cleaned, 1, e - 1),
                   IF r <= n THEN Tail_From(cleaned, r) ELSE <<cleaned[n]>> >>

\* _parse_fact_statement: <<subject, value>>, or None.
parse_fact_statement(prompt) ==
    LET cleaned == Strip(StripTeachPrefix(prompt))
        m == EstSplit(cleaned)
    IN  IF m # None
        THEN <<Strip(m[1]), StripChars(m[2], {" ", "."})>>
        ELSE IF cleaned # <<>> THEN <<cleaned, cleaned>> ELSE None

OpinionLike == <<"l", "i", "k", "e">>

OpinionDislike == <<"d", "i", "s", "l", "i", "k", "e">>

\* _parse_preference_statement: <<category, item, opinion>>, or None.  The
\* "mon avis" branch decides alone when the phrase occurs; the like pattern
\* is tried before the dislike pattern.
parse_preference_statement(prompt) ==
    LET lowered == Lower(prompt)
        after == StripChars(extract_after_keyword(prompt, KwMonAvis), {" ", ":"})
        like_match == KeywordRest(prompt, KwJaime)
        dislike_match == KeywordRest(prompt, KwJeNaimePas)
    IN  IF Contains(lowered, KwMonAvis)
        THEN IF after # <<>>
             THEN <<"general", after, after>>
             ELSE None
        ELSE IF like_match # None
        THEN <<"likes", StripChars(like_match, {" ", "."}), OpinionLike>>
        ELSE IF dislike_match # None
        THEN <<"dislikes", StripChars(dislike_match, {" ", "."}), OpinionDislike>>
        ELSE None

\* patterns of _extract_question_subject, in the order they are tried
QuestionPatterns == <<KwQuiEst, KwQuEstCeQue, KwQuelEst>>

\* _extract_question_subject: the text after the first question pattern that
\* matches, stripped; else the lowered, trimmed prompt; None when that is "".
extract_question_subject(prompt) ==
    LET lowered == StripChars(Lower(prompt), {" ", "?", "!", "."})
        hit == {k \in 1..Len(QuestionPatterns) :
                   KeywordRest(lowered, QuestionPatterns[k]) # None}
        rest == IF lowered # <<>> /\ lowered[Len(lowered)] = "?"
                THEN SubSeq(lowered, 1, Len(lowered) - 1)
                ELSE lowered
    IN  IF hit # {}
        THEN Strip(KeywordRest(lowered, QuestionPatterns[SetMin(hit)]))
        ELSE IF rest # <<>> THEN rest ELSE None

----------------------------------------------------------------------------
(* The fact store and the preference store.                                *)

\* confidence=None: no explicit confidence was passed
NoConfidence == -1

\* a fact that was never soft-deleted has no "deleted_at" key
NoTime == -1

\* confidence_map and its fallback, in tenths
ConfidenceUser == 2

ConfidenceWeb == 8

ConfidenceOther == 5

\* a default that is taken whenever the confidence passed is falsy
NewFact_FalsyConfidence(id, subject, value, provenance, confidence, metadata, now) ==
    [id |-> id,
     subject |-> Strip(subject),
     value |-> Strip(value),
     provenance |-> provenance,
     confidence |-> IF confidence # NoConfidence /\ confidence # 0 THEN confidence
                    ELSE IF provenance = "user" THEN ConfidenceUser
                    ELSE IF provenance = "web" THEN ConfidenceWeb
                    ELSE ConfidenceOther,
     added_at |-> now,
     deleted |-> FALSE,
     deleted_at |-> NoTime,
     metadata |-> metadata]

DefaultConfidence(provenance) ==
    IF provenance = "user" THEN ConfidenceUser
    ELSE IF provenance = "web" THEN ConfidenceWeb
    ELSE ConfidenceOther

\* The record remember_fact builds (notes and tags are never passed by any
\* caller modelled here and keep their defaults).
NewFact(id, subject, value, provenance, confidence, metadata, now) ==
    [id |-> id,
     subject |-> Strip(subject),
     value |-> Strip(value),
     provenance |-> provenance,
     confidence |-> IF confidence # NoConfidence THEN confidence
                    ELSE DefaultConfidence(provenance),
     added_at |-> now,
     deleted |-> FALSE,
     deleted_at |-> NoTime,
     metadata |-> metadata]

\* remember_fact: the new fact goes to the end of the list
StoreFact(facts, fact) == Append(facts, fact)

\* a remember_preference that keeps the entry a pair already has
StorePreference_KeepFirst(prefs, category, item, opinion, now) ==
    [k \in DOMAIN prefs \cup {<<category, item>>} |->
        IF k \in DOMAIN prefs THEN prefs[k]
        ELSE [opinion |-> opinion, added_at |-> now]]

\* remember_preference: upsert of {opinion, added_at} at [category][item]
StorePreference(prefs, category, item, opinion, now) ==
    [k \in DOMAIN prefs \cup {<<category, item>>} |->
        IF k = <<category, item>>
        THEN [opinion |-> opinion, added_at |-> now]
        ELSE prefs[k]]

\* a forget_fact test that also takes a fact whose value holds the query
ForgetMatches_ByValue(fact, subject_query) ==
    /\ ~fact.deleted
    /\ \/ Contains(Lower(fact.subject), Lower(subject_query))
       \/ Contains(Lower(fact.value), Lower(subject_query))

\* the test of forget_fact's loop body for one fact
ForgetMatches(fact, subject_query) ==
    /\ ~fact.deleted
    /\ Contains(Lower(fact.subject), Lower(subject_query))

\* a forget_fact that takes the matching facts out of the list
ForgetFacts_Removing(facts, subject_query, now) ==
    LET Stays(f) == ~ForgetMatches(f, subject_query)
    IN  IF Strip(subject_query) = <<>> THEN facts ELSE SelectSeq(facts, Stays)

\* a forget_fact without its guard on the empty query
ForgetFacts_Unguarded(facts, subject_query, now) ==
    [i \in 1..Len(facts) |->
        IF ForgetMatches(facts[i], subject_query)
        THEN [facts[i] EXCEPT !.deleted = TRUE, !.deleted_at = now]
        ELSE facts[i]]

\* forget_fact: the fact list afterwards
ForgetFacts(facts, subject_query, now) ==
    IF Strip(subject_query) = <<>> THEN facts
    ELSE [i \in 1..Len(facts) |->
            IF ForgetMatches(facts[i], subject_query)
            THEN [facts[i] EXCEPT !.deleted = TRUE, !.deleted_at = now]
            ELSE facts[i]]

\* forget_fact: the count it returns
ForgetCount(facts, subject_query) ==
    IF Strip(subject_query) = <<>> THEN 0
    ELSE Cardinality({i \in 1..Len(facts) : ForgetMatches(facts[i], subject_query)})

\* a matcher test without the second comparison, subject in query
FactMatches_OneWay(fact, subject_query) ==
    LET q == Lower(subject_query)
    IN  /\ ~fact.deleted
        /\ \/ Contains(Lower(fact.subject), q)
           \/ Contains(Lower(fact.value), q)

\* a matcher test that does not look at the deleted flag
FactMatches_AnyFact(fact, subject_query) ==
    LET q == Lower(subject_query)
    IN  \/ Contains(Lower(fact.subject), q)
        \/ Contains(q, Lower(fact.subject))
        \/ Contains(Lower(fact.value), q)

\* the test of _find_matching_facts' loop body for one fact
FactMatches(fact, subject_query) ==
    LET q == Lower(subject_query)
    IN  /\ ~fact.deleted
        /\ \/ Contains(Lower(fact.subject), q)
           \/ Contains(q, Lower(fact.subject))
           \/ Contains(Lower(fact.value), q)

\* _find_matching_facts: the matching facts in list order
find_matching_facts(facts, subject_query) ==
    LET Test(f) == FactMatches(f, subject_query)
    IN  SelectSeq(facts, Test)

----------------------------------------------------------------------------
(* The search capability.                                                  *)

WebSearchPrefix == <<"w", "e", "b", "_", "s", "e", "a", "r", "c", "h", ":">>

SummaryHead == <<"A", "u", "c", "u", "n", "e", " ", "r", "e", "c", "h", "e", "r", "c", "h", "e", " ", "e", "n", " ", "l", "i", "g", "n", "e", " ", "r", "é", "e", "l", "l", "e", " ", "n", "'", "a", " ", "é", "t", "é", " ", "e", "f", "f", "e", "c", "t", "u", "é", "e", " ", "p", "o", "u", "r", " ", "'">>

SummaryTail == <<"'", ".">>

\* a result record that carries no "provenance" key
NoProvenance == "<absent>"

\* the confidence of the placeholder record, in tenths
MockConfidence == 5

\* search_web as the class defines it: one placeholder record (its "value"
\* repeats the summary and its "url" is None; respond reads neither)
search_web(query) ==
    <<[subject |-> WebSearchPrefix \o query,
       summary |-> SummaryHead \o query \o SummaryTail,
       provenance |-> "web",
       confidence |-> MockConfidence]>>

----------------------------------------------------------------------------
(* respond: the classification and the five handlers.  A handler takes the *)
(* memory as loaded and returns the memory as mutated with the locals      *)
(* response_lines, actions and updates_performed (and, for an answer, the  *)
(* matches it reported).                                                   *)

\* a chain that tests the teach triggers before the search triggers
Classify_TeachFirst(prompt) ==
    LET lowered == Strip(Lower(prompt))
    IN  IF ContainsAny(lowered, TeachKeywords) THEN "remember_fact"
        ELSE IF ContainsAny(lowered, SearchKeywords) THEN "search_web"
        ELSE IF ContainsAny(lowered, PreferenceKeywords) THEN "remember_preference"
        ELSE IF Contains(lowered, KwOublie) THEN "forget_fact"
        ELSE "answer"

\* the if / elif chain of respond, by the action tag of the branch taken
Classify(prompt) ==
    LET lowered == Strip(Lower(prompt))
    IN  IF ContainsAny(lowered, SearchKeywords) THEN "search_web"
        ELSE IF ContainsAny(lowered, TeachKeywords) THEN "remember_fact"
        ELSE IF ContainsAny(lowered, PreferenceKeywords) THEN "remember_preference"
        ELSE IF Contains(lowered, KwOublie) THEN "forget_fact"
        ELSE "answer"

FactUpdate(id) == [kind |-> "fact", id |-> id]

PreferenceUpdate(category, item) ==
    [kind |-> "preference", category |-> category, item |-> item]

\* a search branch that stores every result as found on the web
ResultProvenance_AlwaysWeb(result) == "web"

\* result.get("provenance", "web")
ResultProvenance(result) ==
    IF result.provenance = NoProvenance THEN "web" ELSE result.provenance

\* the search branch: every result is stored as a fact
HandleSearch(facts, prefs, prompt, results, id0, now) ==
    LET query == extract_query(prompt)
        Stored(i) == NewFact(id0 + i - 1, results[i].subject, results[i].summary,
                             ResultProvenance(results[i]), results[i].confidence,
                             <<query>>, now)
    IN  [facts |-> facts \o [i \in 1..Len(results) |-> Stored(i)],
         prefs |-> prefs,
         response |-> <<[kind |-> "Résultat de recherche (mock) pour", query |-> query]>>,
         actions |-> <<"search_web">>,
         updates |-> [i \in 1..Len(results) |-> FactUpdate(id0 + i - 1)],
         matches |-> <<>>]

\* the remember-fact branch
HandleTeach(facts, prefs, prompt, id0, now) ==
    LET fact_data == parse_fact_statement(prompt)
        stored == NewFact(id0, fact_data[1], fact_data[2], "user", NoConfidence,
                          <<>>, now)
    IN  IF fact_data # None
        THEN [facts |-> StoreFact(facts, stored),
              prefs |-> prefs,
              response |-> <<[kind |-> "Je mémorise que", subject |-> stored.subject,
                              value |-> stored.value]>>,
              actions |-> <<"remember_fact">>,
              updates |-> <<FactUpdate(stored.id)>>,
              matches |-> <<>>]
        ELSE [facts |-> facts,
              prefs |-> prefs,
              response |-> <<[kind |-> "Je n'ai pas réussi à comprendre le fait à mémoriser."]>>,
              actions |-> <<"remember_fact">>,
              updates |-> <<>>,
              matches |-> <<>>]

\* the remember-preference branch
HandlePreference(facts, prefs, prompt, now) ==
    LET preference == parse_preference_statement(prompt)
    IN  IF preference # None
        THEN [facts |-> facts,
              prefs |-> StorePreference(prefs, preference[1], preference[2],
                                        preference[3], now),
              response |-> <<[kind |-> "Préférence enregistrée pour",
                              item |-> preference[2], category |-> preference[1]]>>,
              actions |-> <<"remember_preference">>,
              updates |-> <<PreferenceUpdate(preference[1], preference[2])>>,
              matches |-> <<>>]
        ELSE [facts |-> facts,
              prefs |-> prefs,
              response |-> <<[kind |-> "Je n'ai pas compris la préférence à enregistrer."]>>,
              actions |-> <<"remember_preference">>,
              updates |-> <<>>,
              matches |-> <<>>]

\* the forget branch
HandleForget(facts, prefs, prompt, now) ==
    LET subject_query == Strip(extract_after_keyword(prompt, KwOublie))
        deleted == ForgetCount(facts, subject_query)
    IN  [facts |-> IF subject_query = <<>> THEN facts
                   ELSE ForgetFacts(facts, subject_query, now),
         prefs |-> prefs,
         response |->
            IF subject_query = <<>>
            THEN <<[kind |-> "Précise ce que je dois oublier."]>>
            ELSE IF deleted # 0
            THEN <<[kind |-> "fait(s) marqué(s) comme oublié(s) pour",
                    count |-> deleted, query |-> subject_query]>>
            ELSE <<[kind |-> "Aucun fait correspondant à oublier."]>>,
         actions |-> <<"forget_fact">>,
         updates |-> <<>>,
         matches |-> <<>>]

\* one response line of an answer
FactLine(fact) ==
    [kind |-> "Selon", source |-> fact.provenance, subject |-> fact.subject,
     value |-> fact.value, added_at |-> fact.added_at]

\* the answer branch
HandleAnswer(facts, prefs, prompt) ==
    LET subject_query == extract_question_subject(prompt)
        asked == subject_query # None /\ subject_query # <<>>
        matches == IF asked THEN find_matching_facts(facts, subject_query) ELSE <<>>
    IN  [facts |-> facts,
         prefs |-> prefs,
         response |->
            IF ~asked
            THEN <<[kind |-> "Je suis prêt à apprendre ou à répondre selon les instructions."]>>
            ELSE IF matches # <<>>
            THEN [i \in 1..Len(matches) |-> FactLine(matches[i])]
            ELSE <<[kind |-> "Je n'ai aucun fait correspondant en mémoire."]>>,
         actions |-> <<"answer">>,
         updates |-> <<>>,
         matches |-> matches]

\* lines 199-274 of respond: the branch the prompt selects
Handle(facts, prefs, prompt, results, id0, now) ==
    LET tag == Classify(prompt)
    IN  IF tag = "search_web" THEN HandleSearch(facts, prefs, prompt, results, id0, now)
        ELSE IF tag = "remember_fact" THEN HandleTeach(facts, prefs, prompt, id0, now)
        ELSE IF tag = "remember_preference" THEN HandlePreference(facts, prefs, prompt, now)
        ELSE IF tag = "forget_fact" THEN HandleForget(facts, prefs, prompt, now)
        ELSE HandleAnswer(facts, prefs, prompt)

\* the entry respond hands to update_logs
LogEntry(prompt, h, now) ==
    [timestamp |-> now, prompt |-> prompt, response |-> h.response,
     actions |-> h.actions, updates |-> h.updates]

----------------------------------------------------------------------------
(* Inputs.                                                                 *)

\* the operations of one run: _now() returns 1, 2, ... MaxClock
MaxClock == 2

\* Prompts of one intent each: statements that parse and that do not, empty
\* and whitespace-only remainders, questions with and without a pattern:
\*   'Apprends que Paris est la capitale.'
\*   'tiens sache que \t'
\*   'Cherche  Paris '
\*   'google'
\*   'web '
\*   "J'aime le chocolat."
\*   "je n'aime pas le chocolat"
\*   'mon avis :'
\*   'Oublie Paris'
\*   ' oublie \t'
\*   'oublie capitale'
\*   'Qui est Paris ?'
\*   'France'
\*   ''
Prompts ==
    { <<"A", "p", "p", "r", "e", "n", "d", "s", " ", "q", "u", "e", " ", "P", "a", "r", "i", "s", " ", "e", "s", "t", " ", "l", "a", " ", "c", "a", "p", "i", "t", "a", "l", "e", ".">>,
      <<"t", "i", "e", "n", "s", " ", "s", "a", "c", "h", "e", " ", "q", "u", "e", " ", "\t">>,
      <<"a", "p", "p", "r", "e", "n", "d", "s", " ", "q", "u", "e">>,
      <<"C", "h", "e", "r", "c", "h", "e", " ", " ", "P", "a", "r", "i", "s", " ">>,
      <<"g", "o", "o", "g", "l", "e">>,
      <<"w", "e", "b", " ">>,
      <<"J", "'", "a", "i", "m", "e", " ", "l", "e", " ", "c", "h", "o", "c", "o", "l", "a", "t", ".">>,
      <<"j", "e", " ", "n", "'", "a", "i", "m", "e", " ", "p", "a", "s", " ", "l", "e", " ", "c", "h", "o", "c", "o", "l", "a", "t">>,
      <<"m", "o", "n", " ", "a", "v", "i", "s", " ", ":">>,
      <<"O", "u", "b", "l", "i", "e", " ", "P", "a", "r", "i", "s">>,
      <<" ", "o", "u", "b", "l", "i", "e", " ", "\t">>,
      <<"o", "u", "b", "l", "i", "e", " ", "c", "a", "p", "i", "t", "a", "l", "e">>,
      <<"Q", "u", "i", " ", "e", "s", "t", " ", "P", "a", "r", "i", "s", " ", "?">>,
      <<"F", "r", "a", "n", "c", "e">>,
      <<>> }

\* Prompts that hold every combination of the four trigger groups, written
\* in the reverse of the order respond tests them:
\*   'Paris'
\*   'oublie Paris'
\*   "j'aime Paris"
\*   "oublie j'aime Paris"
\*   'Apprends que Paris'
\*   'oublie Apprends que Paris'
\*   "j'aime Apprends que Paris"
\*   "oublie j'aime Apprends que Paris"
\*   'web Paris'
\*   'oublie web Paris'
\*   "j'aime web Paris"
\*   "oublie j'aime web Paris"
\*   'Apprends que web Paris'
\*   'oublie Apprends que web Paris'
\*   "j'aime Apprends que web Paris"
\*   "oublie j'aime Apprends que web Paris"
ComboPrompts ==
    { <<"P", "a", "r", "i", "s">>,
      <<"o", "u", "b", "l", "i", "e", " ", "P", "a", "r", "i", "s">>,
      <<"j", "'", "a", "i", "m", "e", " ", "P", "a", "r", "i", "s">>,
      <<"o", "u", "b", "l", "i", "e", " ", "j", "'", "a", "i", "m", "e", " ", "P", "a", "r", "i", "s">>,
      <<"A", "p", "p", "r", "e", "n", "d", "s", " ", "q", "u", "e", " ", "P", "a", "r", "i", "s">>,
      <<"o", "u", "b", "l", "i", "e", " ", "A", "p", "p", "r", "e", "n", "d", "s", " ", "q", "u", "e", " ", "P", "a", "r", "i", "s">>,
      <<"j", "'", "a", "i", "m", "e", " ", "A", "p", "p", "r", "e", "n", "d", "s", " ", "q", "u", "e", " ", "P", "a", "r", "i", "s">>,
      <<"o", "u", "b", "l", "i", "e", " ", "j", "'", "a", "i", "m", "e", " ", "A", "p", "p", "r", "e", "n", "d", "s", " ", "q", "u", "e", " ", "P", "a", "r", "i", "s">>,
      <<"w", "e", "b", " ", "P", "a", "r", "i", "s">>,
      <<"o", "u", "b", "l", "i", "e", " ", "w", "e", "b", " ", "P", "a", "r", "i", "s">>,
      <<"j", "'", "a", "i", "m", "e", " ", "w", "e", "b", " ", "P", "a", "r", "i", "s">>,
      <<"o", "u", "b", "l", "i", "e", " ", "j", "'", "a", "i", "m", "e", " ", "w", "e", "b", " ", "P", "a", "r", "i", "s">>,
      <<"A", "p", "p", "r", "e", "n", "d", "s", " ", "q", "u", "e", " ", "w", "e", "b", " ", "P", "a", "r", "i", "s">>,
      <<"o", "u", "b", "l", "i", "e", " ", "A", "p", "p", "r", "e", "n", "d", "s", " ", "q", "u", "e", " ", "w", "e", "b", " ", "P", "a", "r", "i", "s">>,
      <<"j", "'", "a", "i", "m", "e", " ", "A", "p", "p", "r", "e", "n", "d", "s", " ", "q", "u", "e", " ", "w", "e", "b", " ", "P", "a", "r", "i", "s">>,
      <<"o", "u", "b", "l", "i", "e", " ", "j", "'", "a", "i", "m", "e", " ", "A", "p", "p", "r", "e", "n", "d", "s", " ", "q", "u", "e", " ", "w", "e", "b", " ", "P", "a", "r", "i", "s">> }

\* Prompts of the calls that are interrupted by a fault:
\*   'Cherche  Paris '
\*   'Apprends que Paris est la capitale.'
\*   "J'aime le chocolat."
FaultPrompts ==
    { <<"C", "h", "e", "r", "c", "h", "e", " ", " ", "P", "a", "r", "i", "s", " ">>,
      <<"A", "p", "p", "r", "e", "n", "d", "s", " ", "q", "u", "e", " ", "P", "a", "r", "i", "s", " ", "e", "s", "t", " ", "l", "a", " ", "c", "a", "p", "i", "t", "a", "l", "e", ".">>,
      <<"J", "'", "a", "i", "m", "e", " ", "l", "e", " ", "c", "h", "o", "c", "o", "l", "a", "t", ".">> }

TxtParis == <<"P", "a", "r", "i", "s">>

TxtCapitale == <<"l", "a", " ", "c", "a", "p", "i", "t", "a", "l", "e">>

TxtLyon == <<" ", "L", "y", "o", "n", " ">>

TxtVille == <<"v", "i", "l", "l", "e">>

TxtFrance == <<"F", "r", "a", "n", "c", "e">>

TxtPays == <<"p", "a", "y", "s", " ", "d", "e", " ", "P", "a", "r", "i", "s">>

TxtChocolat == <<"l", "e", " ", "c", "h", "o", "c", "o", "l", "a", "t">>

\* what an overriding search_web may return besides the placeholder: nothing,
\* or two records, the first without "provenance" and "confidence" keys
OtherResults ==
    { <<>>,
      <<[subject |-> TxtParis, summary |-> TxtCapitale,
         provenance |-> NoProvenance, confidence |-> NoConfidence],
        [subject |-> TxtLyon, summary |-> TxtVille,
         provenance |-> "wiki", confidence |-> 0]>> }

\* the results the capability may hand to respond for a prompt; the
\* capability is only called in the search branch
SearchResults(prompt) ==
    IF Classify(prompt) = "search_web"
    THEN {search_web(extract_query(prompt))} \cup OtherResults
    ELSE {<<>>}

\* the respond calls of a set of prompts, as <<prompt, results>>
CallsOf(prompts) == UNION {{<<p, r>> : r \in SearchResults(p)} : p \in prompts}

\* the same with the class's own search_web only
DefaultCallsOf(prompts) ==
    {<<p, IF Classify(p) = "search_web" THEN search_web(extract_query(p)) ELSE <<>> >> :
        p \in prompts}

\* the prompt whose search is also run with an overriding search_web:
\*   'Cherche  Paris '
OverridePrompts ==
    { <<"C", "h", "e", "r", "c", "h", "e", " ", " ", "P", "a", "r", "i", "s", " ">> }

PromptCalls == CallsOf(OverridePrompts) \cup DefaultCallsOf(Prompts \cup ComboPrompts)

FaultCalls == DefaultCallsOf(FaultPrompts)

\* arguments of direct remember_fact calls
FactArgs ==
    { [subject |-> TxtLyon, value |-> TxtVille, provenance |-> "user",
       confidence |-> NoConfidence],
      [subject |-> TxtParis, value |-> TxtCapitale, provenance |-> "web",
       confidence |-> NoConfidence],
      [subject |-> TxtParis, value |-> TxtVille, provenance |-> "book",
       confidence |-> NoConfidence],
      [subject |-> TxtFrance, value |-> TxtPays, provenance |-> "user",
       confidence |-> 0] }

\* further arguments of remember_fact: an explicit confidence, 0 or not,
\* with a provenance that has a default of its own or has none
ConfidenceArgs ==
    { [subject |-> TxtParis, value |-> TxtVille, provenance |-> "web",
       confidence |-> 0],
      [subject |-> TxtLyon, value |-> TxtVille, provenance |-> "book",
       confidence |-> 0],
      [subject |-> TxtLyon, value |-> TxtVille, provenance |-> "web",
       confidence |-> 3] }

\* arguments of direct remember_preference calls
PreferenceArgs ==
    { [category |-> "likes", item |-> TxtChocolat, opinion |-> OpinionLike],
      [category |-> "likes", item |-> TxtChocolat, opinion |-> OpinionDislike],
      [category |-> "general", item |-> TxtParis, opinion |-> TxtVille] }

\* queries of direct _find_matching_facts calls: the start of a subject in
\* either case, a text that holds a subject, a word of a value, a text that
\* no fact holds, and the empty text
FindQueries ==
    { <<"p", "a", "r">>,
      <<"P", "A", "R", "I", "S">>,
      <<"P", "a", "r", "i", "s", " ", "F", "r", "a", "n", "c", "e">>,
      <<"c", "a", "p", "i", "t", "a", "l", "e">>,
      <<"V", "i", "l", "l", "e">>,
      <<"R", "o", "m", "e">>,
      <<>> }

\* arguments of direct forget_fact calls
ForgetQueries ==
    { <<>>,
      <<" ", "\t">>,
      <<"p", "a", "r">>,
      <<"P", "A", "R", "I", "S">>,
      <<"c", "a", "p", "i", "t", "a", "l", "e">>,
      <<"P", "a", "r", "i", "s", " ", "F", "r", "a", "n", "c", "e">>,
      <<" ", "p", "a", "r", "i", "s">> }

\* Prompts of the calls of agents that share a directory:
\*   'Apprends que Paris est la capitale.'
\*   "J'aime le chocolat."
\*   'Oublie Paris'
AgentPrompts ==
    { <<"A", "p", "p", "r", "e", "n", "d", "s", " ", "q", "u", "e", " ", "P", "a", "r", "i", "s", " ", "e", "s", "t", " ", "l", "a", " ", "c", "a", "p", "i", "t", "a", "l", "e", ".">>,
      <<"J", "'", "a", "i", "m", "e", " ", "l", "e", " ", "c", "h", "o", "c", "o", "l", "a", "t", ".">>,
      <<"O", "u", "b", "l", "i", "e", " ", "P", "a", "r", "i", "s">> }

\* the steps of respond at which a fault is injected
Faults == {"load_facts", "load_prefs", "search", "save_facts", "save_prefs", "log"}

----------------------------------------------------------------------------
(* The state after construction: ensure_storage and load_memory have run,  *)
(* so memory holds what the files hold.  The files are those of a fresh    *)
(* directory or those an earlier run left behind.                          *)

EmptyPrefs == [k \in {} |-> [opinion |-> <<>>, added_at |-> 0]]

FactParis ==
    [id |-> 1, subject |-> TxtParis, value |-> TxtCapitale, provenance |-> "user",
     confidence |-> ConfidenceUser, added_at |-> 0, deleted |-> FALSE,
     deleted_at |-> NoTime, metadata |-> <<>>]

FactFranceForgotten ==
    [id |-> 2, subject |-> TxtFrance, value |-> TxtPays, provenance |-> "web",
     confidence |-> ConfidenceWeb, added_at |-> 0, deleted |-> TRUE,
     deleted_at |-> 0, metadata |-> <<>>]

\* <<facts, preferences>> of the files found at construction
InitialStores ==
    { <<<<>>, EmptyPrefs>>,
      <<<<FactParis, FactFranceForgotten>>,
        StorePreference(EmptyPrefs, "likes", TxtChocolat, OpinionLike, 0)>> }

\* a facts file or preferences file that json.load rejects
CorruptFacts == [ok |-> FALSE, items |-> <<>>]

CorruptPrefs == [ok |-> FALSE, map |-> EmptyPrefs]

\* a log line cut short by a failed write: no entry can be read from it
TornLine ==
    [timestamp |-> NoTime, prompt |-> <<>>, response |-> <<>>, actions |-> <<>>,
     updates |-> <<>>]

NoResult ==
    [response |-> <<>>, actions |-> <<>>, updates |-> <<>>, matches |-> <<>>]

\* what an operation was given (its argument and, for respond, what the
\* search capability held ready) and what its caller got back; fault is
\* "none" when the call returned
Outcome(op, arg, results, fault, count, h) ==
    [op |-> op, arg |-> arg, results |-> results, fault |-> fault, count |-> count,
     response |-> h.response, actions |-> h.actions, updates |-> h.updates,
     matches |-> h.matches]

\* the agents that share the directory when more than one runs
Agents == {"A", "B"}

\* an agent between two calls of respond: pc says where its call stands,
\* facts and prefs are its self.memory, read is the facts list that
\* load_memory holds in a local until the preferences are read, result is
\* what its handler left for the log entry
IdleCall(facts, prefs) ==
    [pc |-> "idle", prompt |-> <<>>, facts |-> facts, prefs |-> prefs,
     read |-> <<>>, now |-> NoTime, result |-> NoResult]

Init ==
    /\ \E st \in InitialStores :
          /\ memFacts = st[1]
          /\ memPrefs = st[2]
          /\ diskFacts = [ok |-> TRUE, items |-> st[1]]
          /\ diskPrefs = [ok |-> TRUE, map |-> st[2]]
          /\ nextId = Len(st[1]) + 1
    /\ log = <<>>
    /\ clock = 1
    /\ last = Outcome("__init__", <<>>, <<>>, "none", 0, NoResult)
    /\ calls = [a \in Agents |-> IdleCall(memFacts, memPrefs)]

----------------------------------------------------------------------------
(* The operations.                                                         *)

\* a remember_fact that also rewrites the facts file
remember_fact_Saving(a) ==
    /\ clock <= MaxClock
    /\ memFacts' = StoreFact(memFacts,
                       NewFact(nextId, a.subject, a.value, a.provenance,
                               a.confidence, <<>>, clock))
    /\ diskFacts' = [ok |-> TRUE, items |-> memFacts']
    /\ nextId' = nextId + 1
    /\ clock' = clock + 1
    /\ last' = Outcome("remember_fact", a, <<>>, "none", 0, NoResult)
    /\ UNCHANGED <<memPrefs, diskPrefs, log, calls>>

\* remember_fact(subject, value, provenance, confidence=...)
remember_fact(a) ==
    /\ clock <= MaxClock
    /\ memFacts' = StoreFact(memFacts,
                       NewFact(nextId, a.subject, a.value, a.provenance,
                               a.confidence, <<>>, clock))
    /\ nextId' = nextId + 1
    /\ clock' = clock + 1
    /\ last' = Outcome("remember_fact", a, <<>>, "none", 0, NoResult)
    /\ UNCHANGED <<memPrefs, diskFacts, diskPrefs, log, calls>>

\* remember_preference(category, item, opinion)
remember_preference(a) ==
    /\ clock <= MaxClock
    /\ memPrefs' = StorePreference(memPrefs, a.category, a.item, a.opinion, clock)
    /\ clock' = clock + 1
    /\ last' = Outcome("remember_preference", a, <<>>, "none", 0, NoResult)
    /\ UNCHANGED <<memFacts, diskFacts, diskPrefs, log, nextId, calls>>

\* forget_fact(subject_query); last.count is the count it returns
forget_fact(subject_query) ==
    /\ clock <= MaxClock
    /\ memFacts' = ForgetFacts(memFacts, subject_query, clock)
    /\ clock' = clock + 1
    /\ last' = Outcome("forget_fact", subject_query, <<>>, "none",
                       ForgetCount(memFacts, subject_query), NoResult)
    /\ UNCHANGED <<memPrefs, diskFacts, diskPrefs, log, nextId, calls>>

\* _find_matching_facts(subject_query) called on the collection as it is;
\* last.matches is the list it returns.  It reads the clock nowhere.
find_matching(subject_query) ==
    /\ last' = [Outcome("_find_matching_facts", subject_query, <<>>, "none", 0, NoResult)
                    EXCEPT !.matches = find_matching_facts(memFacts, subject_query)]
    /\ UNCHANGED <<memFacts, memPrefs, diskFacts, diskPrefs, log, clock, nextId, calls>>

\* a save_memory that writes every fact as not deleted
SavedFacts_Undeleting(facts) ==
    [ok |-> TRUE,
     items |-> [i \in 1..Len(facts) |->
                   [facts[i] EXCEPT !.deleted = FALSE, !.deleted_at = NoTime]]]

\* save_memory: the facts file as rewritten from memory
SavedFacts(facts) == [ok |-> TRUE, items |-> facts]

\* save_memory: the preferences file as rewritten from memory
SavedPrefs(prefs) == [ok |-> TRUE, map |-> prefs]

\* update_logs opening the file with "w": the line replaces the file
AppendLog_Truncating(lines, entry) == <<entry>>

\* update_logs: one line appended
AppendLog(lines, entry) == Append(lines, entry)

\* respond from save_memory to its return, h being what the handler left:
\* both files are rewritten from memory and one entry is appended to the log
Completed(prompt, results, h) ==
    /\ memFacts' = h.facts
    /\ memPrefs' = h.prefs
    /\ diskFacts' = SavedFacts(h.facts)
    /\ diskPrefs' = SavedPrefs(h.prefs)
    /\ log' = AppendLog(log, LogEntry(prompt, h, clock))
    /\ nextId' = nextId + (Len(h.facts) - Len(diskFacts.items))
    /\ last' = Outcome("respond", prompt, results, "none", 0, h)

\* respond(prompt) running to its return: load_memory, the handler,
\* save_memory, update_logs.  load_axioms reads a file that nothing here
\* depends on.
\* a respond that works on the memory it finds instead of reloading the files
respond_WithoutReload(prompt, results) ==
    /\ clock <= MaxClock
    /\ diskFacts.ok /\ diskPrefs.ok
    /\ Completed(prompt, results,
                 Handle(memFacts, memPrefs, prompt, results, nextId, clock))
    /\ clock' = clock + 1
    /\ UNCHANGED calls

respond(prompt, results) ==
    /\ clock <= MaxClock
    /\ diskFacts.ok /\ diskPrefs.ok
    /\ Completed(prompt, results,
                 Handle(diskFacts.items, diskPrefs.map, prompt, results, nextId, clock))
    /\ clock' = clock + 1
    /\ UNCHANGED calls

\* a load_memory that puts the facts in memory before it reads the
\* preferences file
Interrupted_EagerLoad(prompt, results, fault, torn, h) ==
    LET loaded == fault \notin {"load_facts", "load_prefs"}
        handled == loaded /\ fault # "search"
    IN  /\ memFacts' = IF handled THEN h.facts
                       ELSE IF fault # "load_facts" THEN diskFacts.items ELSE memFacts
        /\ memPrefs' = IF handled THEN h.prefs
                       ELSE IF loaded THEN diskPrefs.map ELSE memPrefs
        /\ diskFacts' = IF fault \in {"save_prefs", "log"} THEN SavedFacts(h.facts)
                        ELSE IF fault = "save_facts" /\ torn THEN CorruptFacts
                        ELSE diskFacts
        /\ diskPrefs' = IF fault = "log" THEN SavedPrefs(h.prefs)
                        ELSE IF fault = "save_prefs" /\ torn THEN CorruptPrefs
                        ELSE diskPrefs
        /\ log' = IF fault = "log" /\ torn THEN AppendLog(log, TornLine) ELSE log
        /\ nextId' = IF handled THEN nextId + (Len(h.facts) - Len(diskFacts.items))
                     ELSE nextId
        /\ last' = Outcome("respond", prompt, results, fault, 0, NoResult)

\* respond ended by an exception at the step `fault`, h being what the
\* handler leaves when it is reached.  A failed write leaves its file as it
\* was (the open failed) or, with `torn`, unreadable (the write stopped
\* halfway).  Nothing is caught and nothing is rolled back.
Interrupted(prompt, results, fault, torn, h) ==
    LET loaded == fault \notin {"load_facts", "load_prefs"}
        handled == loaded /\ fault # "search"
    IN  /\ memFacts' = IF handled THEN h.facts
                       ELSE IF loaded THEN diskFacts.items ELSE memFacts
        /\ memPrefs' = IF handled THEN h.prefs
                       ELSE IF loaded THEN diskPrefs.map ELSE memPrefs
        /\ diskFacts' = IF fault \in {"save_prefs", "log"} THEN SavedFacts(h.facts)
                        ELSE IF fault = "save_facts" /\ torn THEN CorruptFacts
                        ELSE diskFacts
        /\ diskPrefs' = IF fault = "log" THEN SavedPrefs(h.prefs)
                        ELSE IF fault = "save_prefs" /\ torn THEN CorruptPrefs
                        ELSE diskPrefs
        /\ log' = IF fault = "log" /\ torn THEN AppendLog(log, TornLine) ELSE log
        /\ nextId' = IF handled THEN nextId + (Len(h.facts) - Len(diskFacts.items))
                     ELSE nextId
        /\ last' = Outcome("respond", prompt, results, fault, 0, NoResult)

\* respond(prompt) ended by an exception: a file that json.load rejects, or
\* an injected failure of the load, of the search capability, of one of the
\* two writes of save_memory or of the log append.
respond_fault(prompt, results, fault, torn) ==
    /\ clock <= MaxClock
    /\ ~diskFacts.ok => fault = "load_facts"
    /\ (diskFacts.ok /\ ~diskPrefs.ok) => fault = "load_prefs"
    /\ fault = "search" => Classify(prompt) = "search_web"
    /\ torn => fault \in {"save_facts", "save_prefs", "log"}
    /\ Interrupted(prompt, results, fault, torn,
                   Handle(diskFacts.items, diskPrefs.map, prompt, results,
                          nextId, clock))
    /\ clock' = clock + 1
    /\ UNCHANGED calls

----------------------------------------------------------------------------
(* respond step by step, for agents that share one directory with no lock. *)
(* The steps are the file operations of one call in the order of the code; *)
(* what a call does in its own memory goes with the read before it.  A     *)
(* file opened for writing is empty until the text is written, and a       *)
(* reader that finds it so fails as on malformed JSON.                     *)

\* the other variables of an agent step
AgentFrame == UNCHANGED <<memFacts, memPrefs>>

\* respond(prompt) entered by agent a; load_memory reads the facts file
agent_load_facts(a, prompt) ==
    /\ calls[a].pc \in {"idle", "done", "failed"}
    /\ clock <= MaxClock
    /\ calls' = [calls EXCEPT ![a] =
                    IF diskFacts.ok
                    THEN [@ EXCEPT !.pc = "load_prefs", !.prompt = prompt,
                                   !.read = diskFacts.items]
                    ELSE [@ EXCEPT !.pc = "failed", !.prompt = prompt]]
    /\ last' = IF diskFacts.ok THEN last
               ELSE Outcome("respond", prompt, <<>>, "load_facts", 0, NoResult)
    /\ AgentFrame
    /\ UNCHANGED <<diskFacts, diskPrefs, log, clock, nextId>>

\* what agent a holds after load_memory and the branch of its prompt
AgentHandled(call, h, now) ==
    [call EXCEPT !.pc = "save_facts", !.facts = h.facts, !.prefs = h.prefs,
                 !.read = <<>>, !.now = now,
                 !.result = [response |-> h.response, actions |-> h.actions,
                             updates |-> h.updates, matches |-> h.matches]]

\* load_memory reads the preferences file and assigns self.memory; the
\* branch of the prompt then runs on that memory
agent_load_prefs(a) ==
    /\ calls[a].pc = "load_prefs"
    /\ IF diskPrefs.ok
       THEN /\ calls' = [calls EXCEPT ![a] =
                  AgentHandled(@, Handle(calls[a].read, diskPrefs.map, calls[a].prompt,
                                         IF Classify(calls[a].prompt) = "search_web"
                                         THEN search_web(extract_query(calls[a].prompt))
                                         ELSE <<>>,
                                         nextId, clock),
                               clock)]
            /\ nextId' = nextId + (Len(calls'[a].facts) - Len(calls[a].read))
            /\ clock' = clock + 1
            /\ last' = last
       ELSE /\ calls' = [calls EXCEPT ![a] = [@ EXCEPT !.pc = "failed", !.read = <<>>]]
            /\ last' = Outcome("respond", calls[a].prompt, <<>>, "load_prefs", 0, NoResult)
            /\ UNCHANGED <<nextId, clock>>
    /\ AgentFrame
    /\ UNCHANGED <<diskFacts, diskPrefs, log>>

\* save_memory opens the facts file for writing: the file is empty
agent_open_facts(a) ==
    /\ calls[a].pc = "save_facts"
    /\ diskFacts' = CorruptFacts
    /\ calls' = [calls EXCEPT ![a].pc = "write_facts"]
    /\ AgentFrame
    /\ UNCHANGED <<diskPrefs, log, clock, nextId, last>>

\* The length of the text json.dumps(..., indent=2) makes of one fact, to
\* within the digits of its confidence: 287 characters of keys, id,
\* timestamp and layout, the texts of the fact, and 55 more for the
\* "deleted_at" line of a deleted fact; a search result's metadata adds its
\* "url" and "query" lines.
FactTextSize(fact) ==
    287 + Len(fact.subject) + Len(fact.value) + Len(fact.provenance)
        + (IF fact.deleted THEN 55 ELSE 0)
        + (IF fact.metadata = <<>> THEN 0 ELSE 40 + Len(fact.metadata[1]))

RECURSIVE FactsTextSize(_)
\* the length of the facts file that holds these facts
FactsTextSize(facts) ==
    IF facts = <<>> THEN 18
    ELSE FactTextSize(facts[Len(facts)]) + FactsTextSize(SubSeq(facts, 1, Len(facts) - 1))

RECURSIVE PrefsTextSizeOf(_, _)
PrefsTextSizeOf(prefs, keys) ==
    IF keys = {} THEN 3
    ELSE LET k == CHOOSE x \in keys : TRUE
         IN  90 + Len(k[1]) + Len(k[2]) + Len(prefs[k].opinion)
                + PrefsTextSizeOf(prefs, keys \ {k})

\* the length of the preferences file that holds these entries, to within
\* the layout of a category
PrefsTextSize(prefs) == PrefsTextSizeOf(prefs, DOMAIN prefs)

\* a write of the facts file that folds the agent's new facts into what
\* the file holds
agent_write_facts_Merging(a) ==
    /\ calls[a].pc = "write_facts"
    /\ LET New(f) == \A i \in 1..Len(diskFacts.items) : diskFacts.items[i].id # f.id
       IN  diskFacts' = [ok |-> TRUE,
                         items |-> diskFacts.items \o SelectSeq(calls[a].facts, New)]
    /\ calls' = [calls EXCEPT ![a].pc = "save_prefs"]
    /\ AgentFrame
    /\ UNCHANGED <<diskPrefs, log, clock, nextId, last>>

\* save_memory writes the facts of the agent's memory.  If another agent has
\* written the file since this one opened it, this text is laid over that
\* one from the start: the file reads as this agent's text unless the
\* other text was longer, and then its end stays and json.load rejects
\* the file.
agent_write_facts(a) ==
    /\ calls[a].pc = "write_facts"
    /\ diskFacts' = IF diskFacts.ok
                       /\ FactsTextSize(diskFacts.items) > FactsTextSize(calls[a].facts)
                    THEN CorruptFacts
                    ELSE SavedFacts(calls[a].facts)
    /\ calls' = [calls EXCEPT ![a].pc = "save_prefs"]
    /\ AgentFrame
    /\ UNCHANGED <<diskPrefs, log, clock, nextId, last>>

\* save_memory opens the preferences file for writing
agent_open_prefs(a) ==
    /\ calls[a].pc = "save_prefs"
    /\ diskPrefs' = CorruptPrefs
    /\ calls' = [calls EXCEPT ![a].pc = "write_prefs"]
    /\ AgentFrame
    /\ UNCHANGED <<diskFacts, log, clock, nextId, last>>

\* save_memory writes the preferences of the agent's memory, with the same
\* outcome when another agent has written the file in between
agent_write_prefs(a) ==
    /\ calls[a].pc = "write_prefs"
    /\ diskPrefs' = IF diskPrefs.ok
                       /\ PrefsTextSize(diskPrefs.map) > PrefsTextSize(calls[a].prefs)
                    THEN CorruptPrefs
                    ELSE SavedPrefs(calls[a].prefs)
    /\ calls' = [calls EXCEPT ![a].pc = "log"]
    /\ AgentFrame
    /\ UNCHANGED <<diskFacts, log, clock, nextId, last>>

\* update_logs appends the entry of the call (one write of one line) and
\* respond returns
agent_log(a) ==
    /\ calls[a].pc = "log"
    /\ log' = AppendLog(log, [timestamp |-> calls[a].now, prompt |-> calls[a].prompt,
                              response |-> calls[a].result.response,
                              actions |-> calls[a].result.actions,
                              updates |-> calls[a].result.updates])
    /\ calls' = [calls EXCEPT ![a].pc = "done"]
    /\ last' = Outcome("respond", calls[a].prompt, <<>>, "none", 0, calls[a].result)
    /\ AgentFrame
    /\ UNCHANGED <<diskFacts, diskPrefs, clock, nextId>>

----------------------------------------------------------------------------
(* Specifications.                                                         *)

\* every operation, each call of respond running to its return
Next ==
    \/ \E a \in FactArgs : remember_fact(a)
    \/ \E a \in PreferenceArgs : remember_preference(a)
    \/ \E q \in ForgetQueries : forget_fact(q)
    \/ \E c \in PromptCalls : respond(c[1], c[2])

Spec == Init /\ [][Next]_vars

\* calls of respond that faults interrupt, between calls that return and
\* direct store operations
NextFault ==
    \/ \E a \in FactArgs : remember_fact(a)
    \/ \E q \in ForgetQueries : forget_fact(q)
    \/ \E c \in FaultCalls : respond(c[1], c[2])
    \/ \E c \in FaultCalls : \E f \in Faults : \E torn \in BOOLEAN :
          respond_fault(c[1], c[2], f, torn)

SpecFault == Init /\ [][NextFault]_vars

\* the stores alone: facts and preferences are added, facts are forgotten
\* and the matcher is put to the collection
NextStore ==
    \/ \E a \in FactArgs \cup ConfidenceArgs : remember_fact(a)
    \/ \E a \in PreferenceArgs : remember_preference(a)
    \/ \E q \in ForgetQueries : forget_fact(q)
    \/ \E q \in FindQueries : find_matching(q)

SpecStore == Init /\ [][NextStore]_vars

\* two agents on one directory, the steps of their calls interleaved
NextAgents ==
    \/ \E a \in Agents : \E prompt \in AgentPrompts : agent_load_facts(a, prompt)
    \/ \E a \in Agents : agent_load_prefs(a)
    \/ \E a \in Agents : agent_open_facts(a)
    \/ \E a \in Agents : agent_write_facts(a)
    \/ \E a \in Agents : agent_open_prefs(a)
    \/ \E a \in Agents : agent_write_prefs(a)
    \/ \E a \in Agents : agent_log(a)

SpecAgents == Init /\ [][NextAgents]_vars

----------------------------------------------------------------------------
(* Properties.  A step of an operation is told by what it leaves in last:  *)
(* every operation rewrites last and advances the clock.                   *)

\* the step is a call of respond that returned
RespondReturned == last'.op = "respond" /\ last'.fault = "none" /\ clock' # clock

\* the step is a call of respond that ended by an exception
RespondFailed == last'.op = "respond" /\ last'.fault # "none" /\ clock' # clock

\* the step is a direct call of forget_fact
ForgetCalled == last'.op = "forget_fact" /\ clock' # clock

ActionTags ==
    {"search_web", "remember_fact", "remember_preference", "forget_fact", "answer"}

\* C1: every call of respond that returns leaves the log as it was plus one
\* entry at its end, that entry holds the call's prompt and exactly one
\* action tag, one of the five; and no step of any operation changes or
\* drops an entry that is already in the log.
C1_OneEntryPerRespond ==
    [][ /\ Len(log') >= Len(log)
        /\ SubSeq(log', 1, Len(log)) = log
        /\ RespondReturned =>
              /\ Len(log') = Len(log) + 1
              /\ log'[Len(log')].prompt = last'.arg
              /\ Len(log'[Len(log')].actions) = 1
              /\ log'[Len(log')].actions[1] \in ActionTags ]_vars

\* C1 witness: a second call of respond has returned, on top of the entry
\* of a first one.
C1_Witness ==
    /\ last.op = "respond"
    /\ Len(log) = 2
    /\ log[1].actions = <<"remember_fact">>
    /\ log[2].actions = <<"answer">>
    /\ log[2].prompt = last.arg

\* the facts of `after` from position Len(before) + 1 on
AddedFacts(before, after) == SubSeq(after, Len(before) + 1, Len(after))

\* `after` is `before` with facts appended and no earlier fact touched
Extends(before, after) ==
    /\ Len(after) >= Len(before)
    /\ SubSeq(after, 1, Len(before)) = before

\* the tag is the one of the first trigger group present
ChainTaken(tag, search, teach, opinion, forget) ==
    /\ (tag = "search_web") <=> search
    /\ (tag = "remember_fact") <=> (~search /\ teach)
    /\ (tag = "remember_preference") <=> (~search /\ ~teach /\ opinion)
    /\ (tag = "forget_fact") <=> (~search /\ ~teach /\ ~opinion /\ forget)
    /\ (tag = "answer") <=> (~search /\ ~teach /\ ~opinion /\ ~forget)

\* the stores after the branch of `tag` differ from the stores as loaded
\* only in what that branch writes
OnlyBranchWrote(tag, loaded, facts, added, prefsKept, results) ==
    /\ tag = "search_web" =>
          /\ prefsKept
          /\ Extends(loaded, facts)
          /\ Len(added) = Len(results)
          /\ \A i \in 1..Len(added) : Len(added[i].metadata) = 1
    /\ tag = "remember_fact" =>
          /\ prefsKept
          /\ Extends(loaded, facts)
          /\ Len(added) <= 1
          /\ \A i \in 1..Len(added) :
                added[i].provenance = "user" /\ added[i].metadata = <<>>
    /\ tag = "remember_preference" => facts = loaded
    /\ tag = "forget_fact" => prefsKept /\ Len(facts) = Len(loaded)
    /\ tag = "answer" => prefsKept /\ facts = loaded

\* the lowercased prompt holds these trigger groups
TriggersOf(lowered) ==
    [search |-> ContainsAny(lowered, SearchKeywords),
     teach |-> ContainsAny(lowered, TeachKeywords),
     opinion |-> ContainsAny(lowered, PreferenceKeywords),
     forget |-> Contains(lowered, KwOublie)]

ChainTakenFor(tag, t) == ChainTaken(tag, t.search, t.teach, t.opinion, t.forget)

\* C2: a call of respond that returns takes the branch of the first trigger
\* group its lowercased prompt contains, in the order search, teach,
\* preference, forget, and the answer branch when it contains none; and
\* of the stores only what that branch may touch differs from what was
\* loaded: a search appends one fact per result and nothing else, a
\* teach appends at most one user fact, a preference leaves the facts
\* alone, a forget creates no fact and leaves the preferences alone, an
\* answer changes nothing.
C2_PriorityChain ==
    [][ RespondReturned =>
          /\ \A prompt \in {last'.arg} :
                ChainTakenFor(log'[Len(log')].actions[1],
                              TriggersOf(Strip(Lower(prompt))))
          /\ OnlyBranchWrote(log'[Len(log')].actions[1], diskFacts.items, memFacts',
                             AddedFacts(diskFacts.items, memFacts'),
                             memPrefs' = diskPrefs.map, last'.results) ]_vars

\* C2 witness: a prompt that holds a trigger of each of the four groups and
\* the subject of a stored fact was handled as a search: one fact was
\* appended, the stored fact was not forgotten, no preference was written.
C2_Witness ==
    /\ last.op = "respond" /\ last.fault = "none"
    /\ ContainsAny(Strip(Lower(last.arg)), SearchKeywords)
    /\ ContainsAny(Strip(Lower(last.arg)), TeachKeywords)
    /\ ContainsAny(Strip(Lower(last.arg)), PreferenceKeywords)
    /\ Contains(Strip(Lower(last.arg)), KwOublie)
    /\ last.actions = <<"search_web">>
    /\ Len(memFacts) = 3
    /\ memFacts[1] = FactParis
    /\ memFacts[3].provenance = "web"
    /\ DOMAIN memPrefs = {<<"likes", TxtChocolat>>}

\* fact g is fact f as kept: the same id, subject, value and provenance,
\* and a deleted flag that was not lowered
KeptAs(f, g) ==
    /\ g.id = f.id
    /\ g.subject = f.subject
    /\ g.value = f.value
    /\ g.provenance = f.provenance
    /\ f.deleted => g.deleted

\* every fact of `before` is kept in `after`
AllKept(before, after) ==
    \A i \in 1..Len(before) : \E j \in 1..Len(after) : KeptAs(before[i], after[j])

\* the step is a direct call of a store operation
StoreCalled ==
    /\ last'.op \in {"remember_fact", "remember_preference", "forget_fact"}
    /\ clock' # clock

\* C3 as stated: whatever the operation, every fact of the agent's fact
\* collection is still in it afterwards with the same id, subject, value
\* and provenance, its deleted flag changing from false to true at most.
C3_AsStated == [][AllKept(memFacts, memFacts')]_vars

\* C3: remember_fact, remember_preference and forget_fact keep every fact
\* of the collection in memory, with the same id, subject, value and
\* provenance and a deleted flag that only goes from false to true; a call
\* of respond that returns keeps in this way every fact of the facts file,
\* in the file and in the collection, which it makes equal; the
\* collection as it was before respond is replaced by the file's content.
C3_NeverRemoved ==
    [][ /\ StoreCalled => AllKept(memFacts, memFacts')
        /\ RespondReturned =>
              /\ AllKept(diskFacts.items, memFacts')
              /\ memFacts' = diskFacts'.items
        /\ AllKept(diskFacts.items, diskFacts'.items) ]_vars

\* C3 witness: respond has forgotten a fact of the file, and the fact is
\* still first in the collection and in the file, marked deleted.
C3_Witness ==
    /\ last.op = "respond" /\ last.fault = "none"
    /\ last.actions = <<"forget_fact">>
    /\ Len(memFacts) = 2
    /\ KeptAs(FactParis, memFacts[1])
    /\ memFacts[1].deleted /\ memFacts[1].deleted_at # NoTime
    /\ diskFacts.items = memFacts

\* the facts of the collection that are soft-deleted
DeletedFacts == {memFacts[i] : i \in {j \in 1..Len(memFacts) : memFacts[j].deleted}}

\* queries put to the matcher: a part of a subject, a part of a value, a
\* text that holds a subject, and the queries that would find each deleted
\* fact if the flag were not tested: its subject and its value
MatchQueries ==
    { <<"p", "a", "r">>,
      <<"c", "a", "p", "i", "t", "a", "l", "e">>,
      <<"P", "a", "r", "i", "s", " ", "F", "r", "a", "n", "c", "e">> }
        \cup {f.subject : f \in DeletedFacts}
        \cup {f.value : f \in DeletedFacts}

\* C4: whatever the state and the query, _find_matching_facts returns no
\* fact whose deleted flag is true; and after an answer, the facts reported
\* are facts of the collection that are not deleted, and the response has
\* one line per reported fact, built from that fact.
C4_DeletedNeverMatched ==
    /\ \A q \in MatchQueries :
          \A found \in {find_matching_facts(memFacts, q)} :
              \A i \in 1..Len(found) : ~found[i].deleted
    /\ (last.op = "respond" /\ last.fault = "none" /\ last.actions = <<"answer">>) =>
          /\ \A i \in 1..Len(last.matches) :
                /\ ~last.matches[i].deleted
                /\ \E j \in 1..Len(memFacts) : memFacts[j] = last.matches[i]
          /\ \A i \in 1..Len(last.response) :
                last.response[i].kind = "Selon" =>
                    /\ i <= Len(last.matches)
                    /\ last.response[i] = FactLine(last.matches[i])

\* C4 witness: the question "Qui est Paris ?" was answered with the one
\* fact that is not deleted, while a deleted fact whose value holds the
\* subject asked for is in the collection.
C4_Witness ==
    /\ last.op = "respond" /\ last.fault = "none"
    /\ last.actions = <<"answer">>
    /\ last.matches = <<FactParis>>
    /\ last.response = <<FactLine(FactParis)>>
    /\ memFacts[2].deleted
    /\ Contains(Lower(memFacts[2].value), Lower(TxtParis))

\* the stores, the two files and the log are as they were
NothingVisible == UNCHANGED <<memFacts, memPrefs, diskFacts, diskPrefs, log>>

\* C5: a call of respond that a fault ends, at the load, in the search
\* capability, at the write of the facts file, at the write of the
\* preferences file or at the log append, leaves the in-memory stores, both
\* files and the log as they were before the call.
C5_AllOrNothing == [][RespondFailed => NothingVisible]_vars

\* C6: a call of respond that ends because the facts file or the
\* preferences file cannot be loaded leaves the in-memory facts and
\* preferences, both files and the log exactly as they were.
C6_LoadFaultChangesNothing ==
    [][ (RespondFailed /\ last'.fault \in {"load_facts", "load_prefs"})
            => NothingVisible ]_vars

\* C6 witness: respond has ended on a facts file that cannot be read, with
\* a fact in memory that no file holds, and the log still empty.
C6_Witness ==
    /\ last.op = "respond" /\ last.fault = "load_facts"
    /\ ~diskFacts.ok
    /\ Len(memFacts) = 1
    /\ diskPrefs.ok
    /\ log = <<>>

\* the prompt has a search trigger with nothing but whitespace after it
EmptySearch(prompt) ==
    \E kw \in SearchKeywords :
        /\ Contains(Lower(prompt), kw)
        /\ Strip(extract_after_keyword(prompt, kw)) = <<>>

\* the prompt has the forget trigger with nothing but whitespace after it
EmptyForget(prompt) ==
    /\ Contains(Lower(prompt), KwOublie)
    /\ Strip(extract_after_keyword(prompt, KwOublie)) = <<>>

\* the response is the one line that asks for what was left out
Corrective(response) ==
    /\ Len(response) = 1
    /\ response[1].kind \notin {"Résultat de recherche (mock) pour",
                                "fait(s) marqué(s) comme oublié(s) pour",
                                "Aucun fait correspondant à oublier."}

\* C7: a call of respond that takes the search branch or the forget branch
\* on a prompt with nothing but whitespace after the trigger creates no
\* fact, modifies none, stores no search result, and answers with a
\* corrective message.
C7_EmptyQueryNoOp ==
    [][ RespondReturned =>
          \A prompt \in {last'.arg} :
              ( \/ last'.actions = <<"search_web">> /\ EmptySearch(prompt)
                \/ last'.actions = <<"forget_fact">> /\ EmptyForget(prompt) )
              => /\ memFacts' = diskFacts.items
                 /\ diskFacts'.items = diskFacts.items
                 /\ Corrective(last'.response) ]_vars

\* the ids of the facts of `after` that `before` does not hold unchanged
FactsWritten(before, after) ==
    {after[i].id : i \in {j \in 1..Len(after) :
                              j > Len(before) \/ after[j] # before[j]}}

\* the keys of the preferences of `after` that `before` does not hold unchanged
PrefsWritten(before, after) ==
    {k \in DOMAIN after : k \notin DOMAIN before \/ after[k] # before[k]}

\* C8: the updates of the log entry that a call of respond appends name
\* every fact the call created or modified, soft-deleted facts included,
\* and every preference it stored, each once, and nothing else.
C8_UpdatesListEveryWrite ==
    [][ RespondReturned =>
          \A updates \in {log'[Len(log')].updates} :
              /\ {updates[i] : i \in 1..Len(updates)} =
                    {FactUpdate(id) : id \in FactsWritten(diskFacts.items, memFacts')}
                      \cup {PreferenceUpdate(k[1], k[2]) :
                                k \in PrefsWritten(diskPrefs.map, memPrefs')}
              /\ \A i, j \in 1..Len(updates) : updates[i] = updates[j] => i = j ]_vars

\* C9: forget_fact with an empty or whitespace-only query returns 0 and
\* leaves every fact, its deleted flag and deleted_at included, and every
\* preference as it was.
C9_EmptyForgetIsNoOp ==
    [][ (ForgetCalled /\ Strip(last'.arg) = <<>>)
            => /\ last'.count = 0
               /\ UNCHANGED <<memFacts, memPrefs>> ]_vars

\* C9 witness: forget_fact was called with a whitespace-only query while a
\* fact that is not deleted was in the collection.
C9_Witness ==
    /\ last.op = "forget_fact"
    /\ last.arg = <<" ", "\t">>
    /\ last.count = 0
    /\ Len(memFacts) = 3
    /\ ~memFacts[1].deleted /\ ~memFacts[3].deleted

\* forget_fact's query reaches the fact: it is not deleted and its subject
\* contains the query, case ignored
Hit(fact, query) ==
    /\ ~fact.deleted
    /\ Contains(Lower(fact.subject), Lower(query))

\* the facts after forget_fact(query) at time now, given the facts before
ExactlyHitsMarked(before, after, query, now) ==
    /\ Len(after) = Len(before)
    /\ \A i \in 1..Len(before) :
          after[i] = IF Hit(before[i], query)
                     THEN [before[i] EXCEPT !.deleted = TRUE, !.deleted_at = now]
                     ELSE before[i]

\* C10: forget_fact with a non-empty query sets deleted and deleted_at on
\* exactly the facts that were not deleted and whose subject contains the
\* query, case ignored, and returns their number; every other fact (one
\* that matches by its value only, one whose subject is a proper substring
\* of the query, one already deleted) is unchanged and not counted; a
\* second call with the same query right after finds nothing and returns 0.
C10_ForgetMarksExactly ==
    [][ (ForgetCalled /\ Strip(last'.arg) # <<>>) =>
          \A query \in {last'.arg} :
              /\ ExactlyHitsMarked(memFacts, memFacts', query, clock)
              /\ last'.count =
                    Cardinality({i \in 1..Len(memFacts) : Hit(memFacts[i], query)})
              /\ \A i \in 1..Len(memFacts') : ~Hit(memFacts'[i], query)
              /\ (last.op = "forget_fact" /\ last.arg = query) => last'.count = 0 ]_vars

\* C10 witness: forget_fact("PARIS") returned 1 and marked the fact of
\* subject Paris, and left alone a fact that holds Paris in its value only
\* and a fact that was deleted before.
C10_Witness ==
    /\ last.op = "forget_fact"
    /\ last.arg = <<"P", "A", "R", "I", "S">>
    /\ last.count = 1
    /\ Len(memFacts) = 3
    /\ memFacts[1].deleted /\ memFacts[1].deleted_at = clock - 1
    /\ memFacts[2] = FactFranceForgotten
    /\ ~memFacts[3].deleted
    /\ Contains(Lower(memFacts[3].value), Lower(last.arg))

\* the fact's subject or value answers the query, its deleted flag aside:
\* the query is in the subject, the subject is in the query, or the query
\* is in the value, case ignored
TextMatches(fact, query) ==
    \/ Contains(Lower(fact.subject), Lower(query))
    \/ Contains(Lower(query), Lower(fact.subject))
    \/ Contains(Lower(fact.value), Lower(query))

\* the facts of the list that the query would find if none were deleted
TextMatching(facts, query) ==
    {i \in 1..Len(facts) : TextMatches(facts[i], query)}

NothingFound == <<[kind |-> "Je n'ai aucun fait correspondant en mémoire."]>>

\* an answer to `prompt` over the facts of the file: no line comes from a
\* deleted fact, and a question that only deleted facts match gets the
\* nothing-found message
AnswerSkipsForgotten(prompt, onFile, response) ==
    /\ \A i \in 1..Len(response) :
          response[i].kind = "Selon" =>
              \E j \in 1..Len(onFile) :
                  ~onFile[j].deleted /\ response[i] = FactLine(onFile[j])
    /\ \A subject \in {extract_question_subject(prompt)} :
          ( /\ subject # None
            /\ TextMatching(onFile, subject) # {}
            /\ \A j \in TextMatching(onFile, subject) : onFile[j].deleted )
          => response = NothingFound

\* C11: when respond handles a forget prompt, every fact it marks deleted
\* is written to the facts file with deleted true; from then on every call
\* of respond leaves each deleted fact of the file in the file, deleted and
\* otherwise unchanged; no answer has a line built from a deleted fact of
\* the file, and a question that only deleted facts match gets the
\* nothing-found message.
C11_ForgetIsPersisted ==
    [][ /\ (RespondReturned /\ last'.actions = <<"forget_fact">>) =>
              /\ Len(diskFacts'.items) = Len(diskFacts.items)
              /\ diskFacts'.items = memFacts'
              /\ \A i \in 1..Len(diskFacts.items) :
                    \/ diskFacts'.items[i] = diskFacts.items[i]
                    \/ /\ ~diskFacts.items[i].deleted
                       /\ diskFacts'.items[i] =
                             [diskFacts.items[i] EXCEPT !.deleted = TRUE,
                                                        !.deleted_at = clock]
        /\ \A i \in 1..Len(diskFacts.items) :
              diskFacts.items[i].deleted =>
                  /\ i <= Len(diskFacts'.items)
                  /\ diskFacts'.items[i] = diskFacts.items[i]
        /\ (RespondReturned /\ last'.actions = <<"answer">>) =>
              \A prompt \in {last'.arg} :
                  AnswerSkipsForgotten(prompt, diskFacts.items, last'.response) ]_vars

\* C11 witness: a first call of respond has forgotten the fact of subject
\* Paris, the file holds it as deleted, and a second call, asked who Paris
\* is, has answered that it found nothing.
C11_Witness ==
    /\ Len(log) = 2
    /\ log[1].actions = <<"forget_fact">>
    /\ log[1].response[1].kind = "fait(s) marqué(s) comme oublié(s) pour"
    /\ log[1].response[1].count = 1
    /\ log[2].actions = <<"answer">>
    /\ extract_question_subject(log[2].prompt) = Lower(TxtParis)
    /\ log[2].response = NothingFound
    /\ KeptAs(FactParis, diskFacts.items[1])
    /\ diskFacts.items[1].deleted

\* the positions of the facts the matcher is to return
Matching(facts, query) ==
    {i \in 1..Len(facts) : ~facts[i].deleted /\ TextMatches(facts[i], query)}

\* `found` is the facts at the positions I, in the order of the list
SelectedInOrder(found, facts, I) ==
    /\ Len(found) = Cardinality(I)
    /\ \A k \in 1..Len(found) :
          \E i \in I : Cardinality({j \in I : j < i}) = k - 1 /\ found[k] = facts[i]

\* C12: _find_matching_facts returns the facts that are not deleted and
\* whose subject holds the query, or whose subject is held by the query,
\* or whose value holds the query, case ignored; these and no other, each
\* once, in the order of the collection.
C12_MatcherExact ==
    last.op = "_find_matching_facts" =>
        \A I \in {Matching(memFacts, last.arg)} :
            SelectedInOrder(last.matches, memFacts, I)

\* C12 witness: the query "Paris France" has found the first and the last
\* of four facts, both of subject Paris, and neither the deleted fact of
\* subject France nor the fact of subject Lyon between them.
C12_Witness ==
    /\ last.op = "_find_matching_facts"
    /\ last.arg = <<"P", "a", "r", "i", "s", " ", "F", "r", "a", "n", "c", "e">>
    /\ Len(memFacts) = 4
    /\ last.matches = <<memFacts[1], memFacts[4]>>
    /\ memFacts[2].deleted /\ memFacts[2].subject = TxtFrance
    /\ memFacts[3].subject = Strip(TxtLyon)
    /\ memFacts[4].subject = TxtParis

\* the step is a direct call of remember_fact
RememberFactCalled == last'.op = "remember_fact" /\ clock' # clock

\* the confidence, in tenths, that a call with these arguments is to store
ConfidenceFor(a) ==
    IF a.confidence # NoConfidence THEN a.confidence
    ELSE IF a.provenance = "user" THEN 2
    ELSE IF a.provenance = "web" THEN 8
    ELSE 5

\* C13: remember_fact appends one fact whose confidence is the explicit
\* confidence when one is passed, 0 included and whatever the provenance,
\* and else 0.2 for provenance "user", 0.8 for "web", 0.5 for any other
\* (confidences are counted in tenths).
C13_ConfidenceDefaults ==
    [][ RememberFactCalled =>
          /\ Len(memFacts') = Len(memFacts) + 1
          /\ \A a \in {last'.arg} : \A fact \in {memFacts'[Len(memFacts')]} :
                /\ fact.provenance = a.provenance
                /\ fact.confidence = ConfidenceFor(a) ]_vars

\* C13 witness: facts were stored with an explicit confidence of 0 for
\* provenance "web", whose default is 0.8, and then with no confidence for
\* a provenance that has no default of its own.
C13_Witness ==
    /\ last.op = "remember_fact"
    /\ last.arg.provenance = "book" /\ last.arg.confidence = NoConfidence
    /\ Len(memFacts) = 2
    /\ memFacts[1].provenance = "web" /\ memFacts[1].confidence = 0
    /\ memFacts[2].provenance = "book" /\ memFacts[2].confidence = 5

\* the step is a direct call of remember_preference
RememberPreferenceCalled == last'.op = "remember_preference" /\ clock' # clock

\* C14: remember_preference(category, item, opinion) leaves at
\* [category][item] one entry that holds the opinion of this call, whatever
\* was there before; every entry of another pair is as it was, no other
\* entry appears or disappears, and the facts are unchanged.
C14_LastWriteWins ==
    [][ RememberPreferenceCalled =>
          \A a \in {last'.arg} : \A pair \in {<<a.category, a.item>>} :
              /\ DOMAIN memPrefs' = DOMAIN memPrefs \cup {pair}
              /\ memPrefs'[pair].opinion = a.opinion
              /\ memPrefs'[pair].added_at = clock
              /\ \A k \in DOMAIN memPrefs \ {pair} : memPrefs'[k] = memPrefs[k]
              /\ memFacts' = memFacts ]_vars

\* C14 witness: the opinion on le chocolat, stored as like, was stored
\* again as dislike, and then a preference of another category was stored:
\* the first pair holds dislike and there are two entries.
C14_Witness ==
    /\ last.op = "remember_preference"
    /\ last.arg.category = "general"
    /\ DOMAIN memPrefs = {<<"likes", TxtChocolat>>, <<"general", TxtParis>>}
    /\ memPrefs[<<"likes", TxtChocolat>>].opinion = OpinionDislike
    /\ <<"likes", TxtChocolat>> \in DOMAIN diskPrefs.map
    /\ diskPrefs.map[<<"likes", TxtChocolat>>].opinion = OpinionLike
    /\ memPrefs[<<"general", TxtParis>>].opinion = TxtVille

\* C15: remember_fact, remember_preference and forget_fact leave the facts
\* file, the preferences file and the log as they are; a step that changes
\* one of the three is a call of respond.
C15_DirectOpsInMemoryOnly ==
    [][ /\ StoreCalled => UNCHANGED <<diskFacts, diskPrefs, log>>
        /\ <<diskFacts, diskPrefs, log>>' # <<diskFacts, diskPrefs, log>>
              => last'.op = "respond" ]_vars

\* C15 witness: after a fact was added and a fact was forgotten by direct
\* calls, memory holds both changes and the files and the log hold neither.
C15_Witness ==
    /\ last.op = "forget_fact" /\ last.count = 1
    /\ Len(memFacts) = 3
    /\ memFacts[1].deleted
    /\ diskFacts.items = <<FactParis, FactFranceForgotten>>
    /\ diskPrefs.map = StorePreference(EmptyPrefs, "likes", TxtChocolat, OpinionLike, 0)
    /\ log = <<>>

\* the step is agent a's write of the facts file
WritesFacts(a) == calls[a].pc = "write_facts" /\ calls'[a].pc = "save_prefs"

\* the step is agent a's write of the preferences file
WritesPrefs(a) == calls[a].pc = "write_prefs" /\ calls'[a].pc = "log"

\* the ids of the facts that the log's entries name as stored
LoggedFactIds ==
    UNION {{log[i].updates[j].id :
                j \in {k \in 1..Len(log[i].updates) : log[i].updates[k].kind = "fact"}} :
              i \in 1..Len(log)}

\* C16: with no lock between two agents, a write of save_memory puts in
\* the file what the writing agent holds in memory, that is what it loaded
\* and what its own call added, whatever another agent has written to the
\* file since that load; when the file can be read afterwards, every fact
\* or preference that only the other agent stored is gone from it.
C16_RewriteKeepsOnlyOwnMemory ==
    [][ \A a \in Agents :
          /\ (WritesFacts(a) /\ diskFacts'.ok) => diskFacts'.items = calls[a].facts
          /\ (WritesPrefs(a) /\ diskPrefs'.ok) => diskPrefs'.map = calls[a].prefs ]_vars

\* C16 witness: both agents' calls have returned and both are in the log,
\* both files can be read, the log names a fact that one call stored,
\* and the facts file does not hold that fact.
C16_Witness ==
    /\ \A a \in Agents : calls[a].pc = "done"
    /\ Len(log) = 2
    /\ diskFacts.ok /\ diskPrefs.ok
    /\ \E id \in LoggedFactIds :
          \A i \in 1..Len(diskFacts.items) : diskFacts.items[i].id # id

\* fact is result stored: its texts, the provenance of the result or "web"
\* when the result has none, and not deleted
StoredFrom(fact, result) ==
    /\ fact.subject = Strip(result.subject)
    /\ fact.value = Strip(result.summary)
    /\ fact.provenance =
          (IF result.provenance = NoProvenance THEN "web" ELSE result.provenance)
    /\ ~fact.deleted

\* C17: a call of respond that takes the search branch and gets n result
\* records from the search capability leaves the collection it loaded with
\* n facts appended, the i-th made of the i-th result with the result's
\* provenance or "web" when it has none, none of them deleted and no
\* earlier fact changed; and when it returns the facts file holds that
\* collection.
C17_SearchStoresEachResult ==
    [][ (RespondReturned /\ last'.actions = <<"search_web">>) =>
          \A results \in {last'.results} :
              /\ Extends(diskFacts.items, memFacts')
              /\ Len(memFacts') = Len(diskFacts.items) + Len(results)
              /\ \A i \in 1..Len(results) :
                    StoredFrom(memFacts'[Len(diskFacts.items) + i], results[i])
              /\ diskFacts'.ok
              /\ diskFacts'.items = memFacts' ]_vars

\* C17 witness: a search that got two results, the first without a
\* provenance, has appended two facts to the two of the file, with
\* provenance "web" and "wiki" in this order, and the file holds the four.
C17_Witness ==
    /\ last.op = "respond" /\ last.fault = "none"
    /\ last.actions = <<"search_web">>
    /\ Len(last.results) = 2
    /\ last.results[1].provenance = NoProvenance
    /\ Len(memFacts) = 4
    /\ memFacts[1] = FactParis /\ memFacts[2] = FactFranceForgotten
    /\ memFacts[3].provenance = "web" /\ memFacts[3].subject = TxtParis
    /\ memFacts[4].provenance = "wiki"
    /\ diskFacts.items = memFacts

\* prompt is a trigger phrase of the teach branch, in any case, followed by
\* whitespace or by nothing
OnlyTeachTrigger(prompt) ==
    \E kw \in TeachKeywords :
        /\ Len(prompt) >= Len(kw)
        /\ Lower(SubSeq(prompt, 1, Len(kw))) = kw
        /\ \A i \in (Len(kw) + 1)..Len(prompt) : prompt[i] \in Whitespace

\* C18: a call of respond on a prompt that is only a teach trigger phrase,
\* with or without whitespace after it, stores no fact, names no update in
\* its log entry, answers that it could not understand the fact, and tags
\* the action remember_fact.
C18_TriggerAloneStoresNothing ==
    [][ RespondReturned =>
          \A prompt \in {last'.arg} :
              OnlyTeachTrigger(prompt) =>
                  /\ memFacts' = diskFacts.items
                  /\ diskFacts'.items = diskFacts.items
                  /\ log'[Len(log')].updates = <<>>
                  /\ last'.response =
                        <<[kind |-> "Je n'ai pas réussi à comprendre le fait à mémoriser."]>>
                  /\ last'.actions = <<"remember_fact">> ]_vars

\* the ids of the facts of a collection
FactIds(facts) == {facts[i].id : i \in 1..Len(facts)}

\* C19: when a call of respond returns, the facts and preferences in memory
\* are those the two files hold, whatever memory held before the call: a
\* fact in memory is one of the facts file as it was before the call or one
\* this call created, and a preference in memory is one of the preferences
\* file as it was before the call or one this call stored, so what direct
\* calls had put in memory alone is gone.
C19_MemoryIsFilesAfterRespond ==
    [][ RespondReturned =>
          /\ diskFacts'.ok /\ diskPrefs'.ok
          /\ memFacts' = diskFacts'.items
          /\ memPrefs' = diskPrefs'.map
          /\ \A id \in FactIds(memFacts') :
                id \in FactIds(diskFacts.items) \/ id >= nextId
          /\ \A k \in DOMAIN memPrefs' :
                \/ k \in DOMAIN diskPrefs.map /\ memPrefs'[k] = diskPrefs.map[k]
                \/ memPrefs'[k].added_at = clock ]_vars

\* C19 witness: a call of respond has returned after a direct remember_fact
\* whose fact was in memory alone: the id given to that fact is in neither
\* memory nor the file, which hold the same facts.
C19_Witness ==
    /\ last.op = "respond" /\ last.fault = "none"
    /\ memFacts = diskFacts.items
    /\ memPrefs = diskPrefs.map
    /\ \E id \in 1..(nextId - 1) : id \notin FactIds(memFacts)

====
